---- MODULE Spec2Model ----
(***************************************************************************)
(* A model of the ffetch request orchestration engine: the client          *)
(* (src/src/client.ts), the retry loop (src/src/retry.ts), the default     *)
(* retry predicate (src/src/should-retry.ts) and the circuit breaker       *)
(* (src/src/error.ts, class CircuitBreaker).                               *)
(*                                                                         *)
(* Every top-level call of the client is a process.  It suspends where the *)
(* code awaits: the request-transform/before hooks, the transport, the     *)
(* retry delay and the hooks that follow the retry loop.  The breaker, the *)
(* dedupe map and the pending-request list are shared by all calls.        *)
(***************************************************************************)
EXTENDS Integers, Sequences, FiniteSets, TLC

\* ---------------------------------------------------------------- bounds
NumCalls == 2
MaxRetries == 2
MaxTime == 3
MaxThreshold == 2
MaxInFlight == 2

\* ------------------------------------------------------------- constants
Calls == 1..NumCalls
NoCall == 0
NoKey == <<>>

\* dedupeRequestHash.ts: the arguments of the key function. A url and the
\* text of a body are sequences of characters; a URLSearchParams body is
\* one name/value pair, an ArrayBuffer body a sequence of bytes.
Methods == {"patch", "POST"}
Urls == {<<"a">>, <<"a", "|", "b">>}
NoBody == [kind |-> "null", data |-> <<>>]
Bodies ==
  {NoBody}
    \cup [kind : {"string"}, data : {<<"c">>, <<"b", "|", "c">>}]
    \cup [kind : {"URLSearchParams"}, data : {<<"c", "d">>}]
    \cup [kind : {"ArrayBuffer"}, data : {<<"00">>}]
    \cup [kind : {"FormData", "ReadableStream"}, data : {<<>>}]
HashParams == [method : Methods, url : Urls, body : Bodies, request : Calls]

\* String.prototype.toUpperCase on the methods above
ToUpperCase(m) == IF m = "patch" THEN "PATCH" ELSE m

\* URLSearchParams.prototype.toString for one pair
SearchParamsToString(pair) == <<pair[1], "=", pair[2]>>

\* Buffer.from(body).toString('base64') for no bytes and for one zero byte
Base64(bytes) == IF bytes = <<>> THEN <<>> ELSE <<"A", "A", "=", "=">>

\* dedupeRequestHash.ts: bodyString
BodyString(body) ==
  CASE body.kind = "string" -> body.data
    [] body.kind = "URLSearchParams" -> SearchParamsToString(body.data)
    [] body.kind = "ArrayBuffer" -> Base64(body.data)
    [] OTHER -> <<>>

\* a key function that tells the Request objects of two calls apart
DedupeRequestHash_PerRequest(params) ==
  IF params.body.kind \in {"FormData", "ReadableStream"} THEN NoKey
  ELSE <<ToUpperCase(params.method), "|">> \o params.url \o <<"|">>
         \o BodyString(params.body)
         \o <<IF params.request = 1 THEN "#1" ELSE "#n">>

\* dedupeRequestHash.ts: dedupeRequestHash(params)
DedupeRequestHash(params) ==
  IF params.body.kind \in {"FormData", "ReadableStream"} THEN NoKey
  ELSE <<ToUpperCase(params.method), "|">> \o params.url \o <<"|">>
         \o BodyString(params.body)

\* the keys of the requests above, and the one key of the specifications
\* that do not look at what a key is made of
HashKeys == {DedupeRequestHash(p) : p \in HashParams} \ {NoKey}
NoParams == [method |-> "none", url |-> <<>>, body |-> NoBody]
Keys ==
  {DedupeRequestHash([method |-> "POST", url |-> <<"a">>, body |-> NoBody,
                      request |-> 1])}
NoResponse == 0
Statuses == {200, 404, 429, 500}
ResetTimeouts == {2}

\* what the transport can throw: a generic Error, a TypeError whose message
\* matches the network pattern, a DOMException named AbortError, and a
\* RetryLimitError (a transport that is itself a wrapped client)
TransportThrew == -1
TransportErrors ==
  {"Error", "TypeErrorNetwork", "DOMAbortError", "RetryLimitError", "Thrown"}
NoError == "none"
Predicates == {"default", "always", "never"}
SignalStates == {"absent", "live", "aborted"}

\* an option that is not given (undefined), the header that is not there
Undefined == -1
NoRetryAfter == -1

VARIABLES
  now,              \* Date.now()
  circuit,          \* the client's circuit option
  anySupported,     \* typeof AbortSignal.any === 'function'
  options,          \* the client's timeout and fetchHandler options
  breaker,          \* the CircuitBreaker object and its notifications
  dedupeMap,        \* key -> entry
  pendingRequests,  \* the client's pendingRequests array
  call              \* the state of every call of the client

vars == <<now, circuit, anySupported, options, breaker, dedupeMap, pendingRequests, call>>

\* --------------------------------------------------------------- values
NoResult == [k |-> "none", status |-> NoResponse, err |-> NoError]
Resolved(status) == [k |-> "res", status |-> status, err |-> NoError]
Rejected(err) == [k |-> "err", status |-> NoResponse, err |-> err]

\* a rejection that carries a response (HttpError)
RejectedWith(err, status) == [k |-> "err", status |-> status, err |-> err]

\* the message and cause of a RetryLimitError; the attempt number and the
\* wait (ms, without jitter) of the latest call of the delay policy
NoWrap == [message |-> "none", cause |-> NoError]
NoDelay == [attempt |-> 0, wait |-> 0]

IdleCall ==
  [pc |-> "idle", retries |-> 0, predicate |-> "default",
   throwOnHttpError |-> FALSE, key |-> NoKey, params |-> NoParams,
   userSignal |-> "absent",
   timeout |-> FALSE, timedOut |-> FALSE, joinedTo |-> NoCall,
   i |-> 0, lastResponse |-> NoResponse, result |-> NoResult,
   gateRejected |-> FALSE, startedBlocked |-> FALSE, gateBlocked |-> FALSE,
   admittedOpen |-> FALSE, peer |-> NoCall,
   transportCalls |-> 0, transportFails |-> 0, lastTransport |-> NoResponse,
   onRetryCalls |-> 0,
   controllerAborted |-> FALSE,
   onTimeoutCalls |-> 0, onAbortCalls |-> 0, onCircuitOpenCalls |-> 0,
   onErrorCalls |-> 0, onCompleteCalls |-> 0,
   onErrorArg |-> NoError, onCompleteArg |-> NoResult, lateSpecific |-> FALSE,
   initTimeout |-> Undefined, fetchHandler |-> FALSE,
   transformSignal |-> "absent", throwIfAborted |-> TRUE,
   hookLog |-> <<>>, handler |-> "none", retriedCancel |-> FALSE,
   caught |-> NoError, wrapped |-> NoWrap,
   lastRetryAfter |-> NoRetryAfter, delayCtx |-> NoDelay]

InitBreaker ==
  [failures |-> 0, nextAttempt |-> 0, isOpen |-> FALSE,
   lastSuccessRequest |-> NoCall, lastOpenRequest |-> NoCall,
   openNotified |-> 0, closeNotified |-> 0, opened |-> 0, closed |-> 0,
   openArg |-> NoCall, closeArg |-> NoCall,
   streak |-> 0, hadSuccess |-> FALSE]

NoEntry == [owner |-> NoCall, wired |-> FALSE]

\* ------------------------------------------------------ circuit breaker
\* error.ts: private onFailure().  The client installs both breaker hooks.
OnFailure(b, t) ==
  LET f == b.failures + 1 IN
  IF f >= circuit.threshold
    THEN [b EXCEPT !.failures = f,
                   !.nextAttempt = t + circuit.reset,
                   !.isOpen = TRUE,
                   !.opened = IF b.isOpen THEN @ ELSE @ + 1,
                   !.openNotified = IF b.lastOpenRequest # NoCall THEN @ + 1 ELSE @,
                   !.openArg = IF b.lastOpenRequest # NoCall
                                 THEN b.lastOpenRequest ELSE @]
    ELSE [b EXCEPT !.failures = f]

\* a success that resets the counter and leaves the flag as it is
OnSuccess_KeepsFlag(b) == [b EXCEPT !.failures = 0, !.lastSuccessRequest = NoCall]

\* error.ts: private onSuccess()
OnSuccess(b) ==
  IF b.isOpen
    THEN [b EXCEPT !.failures = 0,
                   !.isOpen = FALSE,
                   !.closed = @ + 1,
                   !.closeNotified = IF b.lastSuccessRequest # NoCall THEN @ + 1 ELSE @,
                   !.closeArg = IF b.lastSuccessRequest # NoCall
                                  THEN b.lastSuccessRequest ELSE @,
                   !.lastSuccessRequest = NoCall]
    ELSE [b EXCEPT !.failures = 0, !.lastSuccessRequest = NoCall]

\* error.ts: recordResult(response, error, req); response is a status or
\* NoResponse, error a thrown value or NoError
RecordResult(b, response, error, req, t) ==
  IF error # NoError /\ error # "RetryLimitError"
    THEN OnFailure([b EXCEPT !.lastOpenRequest = req], t)
  ELSE IF response # NoResponse /\ (response >= 500 \/ response = 429)
    THEN OnFailure([b EXCEPT !.lastOpenRequest = req], t)
  ELSE OnSuccess([b EXCEPT !.lastSuccessRequest = req])

\* history kept for the properties: the failed transport outcomes since the
\* last call that completed with a non-failure response
IsFailureStatus(status) == status >= 500 \/ status = 429
NoteFailure(b) == [b EXCEPT !.streak = @ + 1]
NoteSuccess(b) == [b EXCEPT !.streak = 0, !.hadSuccess = TRUE]

\* a guard that lets the last instant before the deadline through
GateRejects_Early(b, t) == t + 1 < b.nextAttempt

\* error.ts: the guard of invoke()
GateRejects(b, t) == t < b.nextAttempt

\* client.ts: the getter circuitOpen
circuitOpen == IF circuit.enabled THEN breaker.isOpen ELSE FALSE

\* ------------------------------------------------------------ retry loop
\* should-retry.ts: the default predicate
IsAbortError(e) == e \in {"AbortError", "AbortErrorByUser"}

ShouldRetry(error, response) ==
  IF IsAbortError(error) \/ error = "CircuitOpenError" \/ error = "TimeoutError"
    THEN FALSE
  ELSE IF response = NoResponse THEN TRUE
  ELSE response >= 500 \/ response = 429

\* client.ts: effectiveShouldRetry, for the three predicates of the model
EffectiveShouldRetry(p, error, response) ==
  CASE p = "default" -> ShouldRetry(error, response)
    [] p = "always" -> TRUE
    [] p = "never" -> FALSE

\* a guard that stops notifying one attempt early
FiresOnRetry_Early(retrying, attempt, retries) == retrying /\ attempt < retries

\* client.ts: the guard of the onRetry call in shouldRetryWithHook
FiresOnRetry(retrying, attempt, retries) == retrying /\ attempt <= retries

\* retry.ts: the two tests on the loop index
AttemptsRemain(i, retries) == i < retries

\* a loop that gives up one iteration late
AttemptsExhausted_Late(i, retries) == i = retries + 1

AttemptsExhausted(i, retries) == i = retries

\* retry.ts: ctx.attempt of the iteration with loop index i
CtxAttempt(i) == i + 1

\* retry.ts: defaultDelay(ctx) without its jitter, Math.random() * 100, which
\* adds less than 100 ms
DefaultDelay(attempt) == (2 ^ attempt) * 200

\* retry.ts: wait = delay(ctx) with the default policy
DelayCall(r) ==
  [attempt |-> CtxAttempt(r.i), wait |-> DefaultDelay(CtxAttempt(r.i))]

\* retry.ts: the loop after fn() resolved with a response
AfterResponse(r, status) ==
  LET r1 == [r EXCEPT !.lastResponse = status] IN
  IF AttemptsRemain(r.i, r.retries)
       /\ EffectiveShouldRetry(r.predicate, NoError, status)
    THEN [r1 EXCEPT !.pc = "backoff",
                    !.onRetryCalls =
                       IF FiresOnRetry(TRUE, r.i + 1, r.retries) THEN @ + 1 ELSE @,
                    !.delayCtx = DelayCall(r)]
    ELSE [r1 EXCEPT !.pc = "tail", !.result = Resolved(status)]

\* the errors that stand for a cancellation or an open breaker
IsCancellation(e) ==
  IsAbortError(e) \/ e = "TimeoutError" \/ e = "CircuitOpenError"

\* retry.ts: the loop after fn() threw; ctx.response is the previous lastRes
AfterThrow(r, error) ==
  IF AttemptsExhausted(r.i, r.retries)
       \/ ~EffectiveShouldRetry(r.predicate, error, r.lastResponse)
    THEN [r EXCEPT !.pc = "tail", !.result = Rejected(error)]
    ELSE [r EXCEPT !.pc = "backoff",
                   !.onRetryCalls =
                      IF FiresOnRetry(TRUE, r.i + 1, r.retries) THEN @ + 1 ELSE @,
                   !.delayCtx = DelayCall(r),
                   !.retriedCancel = @ \/ IsCancellation(error)]

\* client.ts: the hook calls of one call; lateSpecific records that a
\* type-specific hook ran after onError had run
OnTimeoutHook(r) ==
  [r EXCEPT !.onTimeoutCalls = @ + 1, !.lateSpecific = @ \/ r.onErrorCalls > 0]
OnAbortHook(r) ==
  [r EXCEPT !.onAbortCalls = @ + 1, !.lateSpecific = @ \/ r.onErrorCalls > 0]
OnCircuitOpenHook(r) ==
  [r EXCEPT !.onCircuitOpenCalls = @ + 1, !.lateSpecific = @ \/ r.onErrorCalls > 0]

\* onError(request, err) followed by onComplete(request, undefined, err)
OnErrorThenComplete(r, res) ==
  [r EXCEPT !.onErrorCalls = @ + 1, !.onErrorArg = res.err,
            !.onCompleteCalls = @ + 1, !.onCompleteArg = res,
            !.hookLog = Append(@, "onComplete")]

\* client.ts: the hook the attempt function calls before it throws
AttemptHook(r, error) ==
  IF error = "TimeoutError" THEN OnTimeoutHook(r)
  ELSE IF error = "AbortErrorByUser" THEN OnAbortHook(r)
  ELSE r

\* client.ts: const handler = fetchHandler ?? fetch, fetchHandler being the
\* client's option
HandlerOf(r) == IF options.fetchHandler THEN "client" ELSE "ambient"

\* an attempt function that tests the caller's signal and the timeout only
BeginAttempt_OwnSignalsOnly(r) ==
  IF r.userSignal = "aborted"
    THEN AfterThrow(AttemptHook(r, "AbortErrorByUser"), "AbortErrorByUser")
  ELSE IF r.timedOut THEN AfterThrow(AttemptHook(r, "TimeoutError"), "TimeoutError")
  ELSE [r EXCEPT !.pc = "inflight", !.transportCalls = @ + 1,
                 !.handler = HandlerOf(r),
                 !.hookLog = Append(@, "transport")]

\* an attempt function that starts a timer of its own
BeginAttempt_PerAttempt(r) ==
  IF r.userSignal = "aborted"
    THEN AfterThrow(AttemptHook(r, "AbortErrorByUser"), "AbortErrorByUser")
  ELSE [r EXCEPT !.pc = "inflight", !.transportCalls = @ + 1,
                 !.timedOut = FALSE,
                 !.handler = HandlerOf(r),
                 !.hookLog = Append(@, "transport")]

\* client.ts: the attempt function up to the transport invocation; with
\* only the signal of the transformed request cancelled, throwIfAborted()
\* throws the signal's reason, a DOMException, and without throwIfAborted the
\* fallback branch throws AbortError('Request was aborted')
BeginAttempt(r) ==
  IF r.userSignal = "aborted"
    THEN AfterThrow(AttemptHook(r, "AbortErrorByUser"), "AbortErrorByUser")
  ELSE IF r.timedOut THEN AfterThrow(AttemptHook(r, "TimeoutError"), "TimeoutError")
  ELSE IF r.transformSignal = "aborted"
    THEN IF r.throwIfAborted THEN AfterThrow(r, "DOMAbortError")
                             ELSE AfterThrow(r, "AbortError")
  ELSE [r EXCEPT !.pc = "inflight", !.transportCalls = @ + 1,
                 !.handler = HandlerOf(r),
                 !.hookLog = Append(@, "transport")]

\* client.ts: the catch block of the attempt function
Classify(r, error) ==
  IF error = "DOMAbortError"
    THEN IF r.timedOut /\ r.userSignal # "aborted" THEN "TimeoutError"
         ELSE IF r.userSignal = "aborted" THEN "AbortErrorByUser"
         ELSE "AbortError"
  ELSE IF error = "TypeErrorNetwork" THEN "NetworkError"
  ELSE error

\* a status test that leaves the 4xx statuses out
IsHttpError_ServerOnly(status) == status >= 500 \/ status = 429

\* client.ts: the status test of throwOnHttpError
IsHttpError(status) ==
  (status >= 400 /\ status < 500 /\ status # 429) \/ status >= 500 \/ status = 429

\* client.ts: what retryWithHooks settles with, given what retry() settled with
FinalResult(r) ==
  IF r.result.k = "res"
    THEN IF r.throwOnHttpError /\ IsHttpError(r.result.status)
           THEN RejectedWith("HttpError", r.lastResponse)
           ELSE r.result
  ELSE IF r.lastResponse # NoResponse
    THEN IF r.throwOnHttpError /\ IsHttpError(r.lastResponse)
           THEN RejectedWith("HttpError", r.lastResponse)
           ELSE Resolved(r.lastResponse)
  ELSE IF r.result.err = "TimeoutError" \/ IsAbortError(r.result.err)
          \/ r.result.err = "NetworkError"
    THEN r.result
  ELSE Rejected("RetryLimitError")

\* client.ts: the hooks retryWithHooks calls after retry() settled
TailHooks(r) ==
  IF r.result.k = "res"
    THEN [r EXCEPT !.onCompleteCalls = @ + 1, !.onCompleteArg = r.result,
                   !.hookLog = @ \o <<"after", "onComplete">>]
  ELSE IF r.lastResponse # NoResponse THEN r
  ELSE IF r.result.err = "TimeoutError"
    THEN OnErrorThenComplete(OnTimeoutHook(r), r.result)
  ELSE IF IsAbortError(r.result.err)
    THEN OnErrorThenComplete(OnAbortHook(r), r.result)
  ELSE IF r.result.err = "NetworkError" THEN OnErrorThenComplete(r, r.result)
  ELSE OnErrorThenComplete(r, Rejected("RetryLimitError"))

\* client.ts: the message the outer catch gives the RetryLimitError it builds
\* around err: err.message when that is a string (here the error's name
\* stands for its message), else the default
MessageOf(err) == IF err = "Thrown" THEN "Retry limit reached" ELSE err

\* client.ts: the message and the cause of the RetryLimitError of the outer
\* catch, when that is what it throws
WrappedBy(r) ==
  IF FinalResult(r) = Rejected("RetryLimitError") /\ r.result.k = "err"
    THEN [message |-> MessageOf(r.result.err), cause |-> r.result.err]
    ELSE NoWrap

\* client.ts: the catch handler on breaker.invoke(retryWithHooks)
InvokeCatchHooks(r, res) ==
  IF ~circuit.enabled \/ res.k # "err" THEN r
  ELSE IF res.err = "CircuitOpenError"
    THEN OnErrorThenComplete(OnCircuitOpenHook(r), res)
  ELSE OnErrorThenComplete(r, res)

\* ---------------------------------------------------------------- client
Unsettled == {c \in Calls : call[c].pc \notin {"idle", "settled"}}

\* a count that leaves the request's own signal out
SignalCount_CallerOnly(r) ==
  (IF r.userSignal # "absent" THEN 1 ELSE 0) + (IF r.timeout THEN 1 ELSE 0)

\* client.ts: signals.length (request.signal is always present and differs
\* from the caller's signal)
SignalCount(r) ==
  (IF r.userSignal # "absent" THEN 1 ELSE 0) + 1 + (IF r.timeout THEN 1 ELSE 0)

\* the calls that have a record in a list of records
Range(seq) == {seq[n] : n \in 1..Len(seq)}

\* client.ts: the signal handed to the transport is cancelled
SignalAborted(r) ==
  r.userSignal = "aborted" \/ r.timedOut \/ r.transformSignal = "aborted"

\* a finally handler that leaves the record in the list
Remove_Nothing(seq, c) == seq

\* pendingRequests.splice(pendingRequests.indexOf(entry), 1)
Remove(seq, c) == SelectSeq(seq, LAMBDA x : x # c)

\* client.ts: the dedupe lookup; TRUE when the call returns the entry's promise
JoinsEntry_Never(key) == FALSE
JoinsEntry(key) == key # NoKey /\ dedupeMap[key].owner # NoCall

\* history kept for the properties: the breaker is open and its deadline is
\* still ahead; the unsettled call that was the first to present this key
BlockedNow == circuit.enabled /\ breaker.isOpen /\ now < breaker.nextAttempt
FirstWithKey(key) ==
  LET firsts == {d \in Unsettled : call[d].key = key /\ call[d].peer = NoCall}
  IN IF key # NoKey /\ firsts # {} THEN CHOOSE d \in firsts : TRUE ELSE NoCall

\* client(input, init) up to its first await: the dedupe lookup of a call
\* whose options are in r
Begin(c, r0) ==
  /\ call[c].pc = "idle"
  /\ IF c = 1 THEN TRUE ELSE call[c - 1].pc # "idle"
  /\ Cardinality(Unsettled) < MaxInFlight
  /\ LET r == [r0 EXCEPT !.startedBlocked = BlockedNow,
                         !.peer = FirstWithKey(r0.key)]
     IN IF JoinsEntry(r.key)
          THEN /\ call' = [call EXCEPT ![c] =
                             [r EXCEPT !.pc = "joined",
                                       !.joinedTo = dedupeMap[r.key].owner]]
               /\ UNCHANGED dedupeMap
          ELSE /\ call' = [call EXCEPT ![c] = [r EXCEPT !.pc = "pre"]]
               /\ dedupeMap' = IF r.key # NoKey
                                 THEN [dedupeMap EXCEPT ![r.key] =
                                         [owner |-> c, wired |-> FALSE]]
                                 ELSE dedupeMap
  /\ UNCHANGED <<now, circuit, anySupported, options, breaker, pendingRequests>>

\* a reading of init.timeout that takes 0 for a missing option
EffectiveTimeout_Falsy(initTimeout, clientTimeout) ==
  IF initTimeout # Undefined /\ initTimeout # 0 THEN initTimeout ELSE clientTimeout

\* client.ts: effectiveTimeout = init.timeout ?? clientDefaultTimeout
EffectiveTimeout(initTimeout, clientTimeout) ==
  IF initTimeout # Undefined THEN initTimeout ELSE clientTimeout

\* client(input, init) for a call whose init is o: retries, shouldRetry,
\* signal, timeout, fetchHandler, the signal of the request transformRequest
\* returns ("absent": the request is not replaced); env tells whether the
\* runtime's signals have throwIfAborted
StartWith(c, o, env) ==
  Begin(c, [IdleCall EXCEPT
              !.retries = o.retries, !.predicate = o.shouldRetry,
              !.userSignal = o.signal, !.initTimeout = o.timeout,
              !.timeout = EffectiveTimeout(o.timeout, options.timeout) > 0,
              !.fetchHandler = o.fetchHandler,
              !.transformSignal = o.transformSignal,
              !.throwIfAborted = env])

\* client(input, init) with dedupe enabled and the default key function,
\* for a request with this method, url and body
StartHashed(c, method, url, body) ==
  Begin(c, [IdleCall EXCEPT
              !.params = [method |-> method, url |-> url, body |-> body],
              !.key = DedupeRequestHash([method |-> method, url |-> url,
                                         body |-> body, request |-> c])])

\* client(input, init) for a call with these effective options
Start(c, retries, predicate, throwOnHttpError, key, signal, timeout) ==
  Begin(c, [IdleCall EXCEPT !.retries = retries, !.predicate = predicate,
                            !.throwOnHttpError = throwOnHttpError,
                            !.key = key, !.userSignal = signal,
                            !.timeout = timeout])

\* client.ts from the before hook on: the combination of the signals fails
ProceedNoAny(c) ==
  /\ call[c].pc = "pre"
  /\ SignalCount(call[c]) # 1 /\ ~anySupported
  /\ call' = [call EXCEPT ![c] = [@ EXCEPT !.pc = "settled",
                                           !.result = Rejected("Error"),
                                           !.hookLog = Append(@, "before")]]
  /\ UNCHANGED <<now, circuit, anySupported, options, breaker, dedupeMap, pendingRequests>>

\* client.ts from the before hook on: signals, breaker.invoke and the first
\* attempt up to the transport, the dedupe wiring, pendingRequests.push
Proceed(c) ==
  /\ call[c].pc = "pre"
  /\ (SignalCount(call[c]) = 1 \/ anySupported)
  /\ LET r == [call[c] EXCEPT !.hookLog = Append(@, "before")] IN
     /\ call' = [call EXCEPT ![c] =
          IF circuit.enabled /\ GateRejects(breaker, now)
            THEN [InvokeCatchHooks(r, Rejected("CircuitOpenError"))
                    EXCEPT !.pc = "settling", !.gateRejected = TRUE,
                           !.gateBlocked = BlockedNow,
                           !.result = Rejected("CircuitOpenError")]
            ELSE BeginAttempt([r EXCEPT !.gateBlocked = BlockedNow,
                                        !.admittedOpen = circuitOpen])]
     /\ dedupeMap' = IF r.key # NoKey /\ dedupeMap[r.key].owner # NoCall
                       THEN [dedupeMap EXCEPT ![r.key].wired = TRUE]
                       ELSE dedupeMap
  /\ pendingRequests' = Append(pendingRequests, c)
  /\ UNCHANGED <<now, circuit, anySupported, options, breaker>>

\* the transport resolves with a response that may carry a Retry-After
\* header (in seconds): the rest of the attempt function and the retry loop
\* up to its next await
TransportRespondsWith(c, status, retryAfter) ==
  /\ call[c].pc = "inflight"
  /\ breaker' = IF circuit.enabled /\ (status >= 500 \/ status = 429)
                  THEN NoteFailure(RecordResult(breaker, status, NoError, c, now))
                  ELSE breaker
  /\ call' = [call EXCEPT ![c] =
       AfterResponse([@ EXCEPT !.lastTransport = status,
                               !.lastRetryAfter = retryAfter,
                               !.transportFails =
                                  IF status >= 500 \/ status = 429 THEN @ + 1 ELSE @],
                     status)]
  /\ UNCHANGED <<now, circuit, anySupported, options, dedupeMap, pendingRequests>>

\* the transport resolves with a response without that header
TransportResponds(c, status) == TransportRespondsWith(c, status, NoRetryAfter)

\* the transport rejects: the catch block of the attempt function and the
\* retry loop up to its next await
TransportThrows(c, error) ==
  /\ call[c].pc = "inflight"
  /\ breaker' = IF circuit.enabled
                  THEN NoteFailure(RecordResult(breaker, NoResponse, error, c, now))
                  ELSE breaker
  /\ call' = [call EXCEPT ![c] =
       AfterThrow(AttemptHook([@ EXCEPT !.lastTransport = TransportThrew,
                                        !.transportFails = @ + 1],
                              Classify(call[c], error)),
                  Classify(call[c], error))]
  /\ UNCHANGED <<now, circuit, anySupported, options, dedupeMap, pendingRequests>>

\* retry.ts: the delay has passed, the next iteration starts
BackoffDone(c) ==
  /\ call[c].pc = "backoff"
  /\ call' = [call EXCEPT ![c] = BeginAttempt([@ EXCEPT !.i = @ + 1])]
  /\ UNCHANGED <<now, circuit, anySupported, options, breaker, dedupeMap, pendingRequests>>

\* client.ts: the rest of retryWithHooks after retry() settled, then the
\* bookkeeping of breaker.invoke
Complete(c) ==
  /\ call[c].pc = "tail"
  /\ LET res == FinalResult(call[c]) IN
     /\ call' = [call EXCEPT ![c] =
          [InvokeCatchHooks(TailHooks(@), res)
             EXCEPT !.pc = "settling", !.result = res,
                    !.caught = call[c].result.err,
                    !.wrapped = WrappedBy(call[c])]]
     /\ breaker' = IF ~circuit.enabled THEN breaker
                   ELSE IF res.k = "res"
                     THEN IF IsFailureStatus(res.status)
                            THEN OnSuccess(breaker)
                            ELSE NoteSuccess(OnSuccess(breaker))
                   ELSE OnFailure(breaker, now)
  /\ UNCHANGED <<now, circuit, anySupported, options, dedupeMap, pendingRequests>>

\* client.ts: actualPromise settled: the dedupe entry's resolve/reject and
\* the finally handler
Settle(c) ==
  /\ call[c].pc = "settling"
  /\ call' = [d \in Calls |->
       IF d = c
         THEN [call[d] EXCEPT !.pc = "settled", !.i = 0, !.lastResponse = NoResponse,
                              !.caught = NoError]
       ELSE IF call[d].pc = "joined" /\ call[d].joinedTo = c
         THEN [call[d] EXCEPT !.pc = "settled", !.result = call[c].result]
       ELSE call[d]]
  /\ pendingRequests' = Remove(pendingRequests, c)
  /\ dedupeMap' = IF call[c].key # NoKey /\ dedupeMap[call[c].key].owner = c
                       /\ dedupeMap[call[c].key].wired
                    THEN [dedupeMap EXCEPT ![call[c].key] = NoEntry]
                    ELSE dedupeMap
  /\ UNCHANGED <<now, circuit, anySupported, options, breaker>>

\* the caller aborts the signal it passed in init.signal
UserAbort(c) ==
  /\ call[c].pc \in {"pre", "inflight", "backoff"}
  /\ call[c].userSignal = "live"
  /\ call' = [call EXCEPT ![c].userSignal = "aborted"]
  /\ UNCHANGED <<now, circuit, anySupported, options, breaker, dedupeMap, pendingRequests>>

\* the signal of the request that transformRequest returned is aborted
TransformAbort(c) ==
  /\ call[c].pc \in {"pre", "inflight", "backoff"}
  /\ call[c].transformSignal = "live"
  /\ call' = [call EXCEPT ![c].transformSignal = "aborted"]
  /\ UNCHANGED <<now, circuit, anySupported, options, breaker, dedupeMap, pendingRequests>>

\* the timeout signal created by createTimeoutSignal fires
TimeoutFires(c) ==
  /\ call[c].pc \in {"inflight", "backoff"}
  /\ call[c].timeout /\ ~call[c].timedOut
  /\ call' = [call EXCEPT ![c].timedOut = TRUE]
  /\ UNCHANGED <<now, circuit, anySupported, options, breaker, dedupeMap, pendingRequests>>

\* client.ts: abortAll() calls abort() on the controller of every record
AbortAll ==
  /\ pendingRequests # <<>>
  /\ \E c \in Calls : c \in Range(pendingRequests) /\ ~call[c].controllerAborted
  /\ call' = [c \in Calls |->
       IF c \in Range(pendingRequests)
         THEN [call[c] EXCEPT !.controllerAborted = TRUE]
         ELSE call[c]]
  /\ UNCHANGED <<now, circuit, anySupported, options, breaker, dedupeMap, pendingRequests>>

\* Date.now() advances
Tick ==
  /\ now < MaxTime
  /\ now' = now + 1
  /\ UNCHANGED <<circuit, anySupported, options, breaker, dedupeMap, pendingRequests, call>>

\* client.ts: createClient's defaults when the option is not given: timeout
\* (in clock ticks, standing for 5000 ms) and no fetchHandler
DefaultTimeout == 2
DefaultOptions == [timeout |-> DefaultTimeout, fetchHandler |-> FALSE]

NoCircuit == [enabled |-> FALSE, threshold |-> 0, reset |-> 0]
Circuits ==
  {[enabled |-> TRUE, threshold |-> t, reset |-> rs] :
     t \in 1..MaxThreshold, rs \in ResetTimeouts}

\* createClient(opts) in a runtime with or without AbortSignal.any
InitClient(circuits, anys, opts) ==
  /\ now = 0
  /\ circuit \in circuits
  /\ anySupported \in anys
  /\ options \in opts
  /\ breaker = InitBreaker
  /\ dedupeMap = [k \in Keys |-> NoEntry]
  /\ pendingRequests = <<>>
  /\ call = [c \in Calls |-> IdleCall]

InitWith(circuits, anys) == InitClient(circuits, anys, {DefaultOptions})

\* ------------------------------------------- the retry loop, no breaker
\* Without a breaker and without dedupe the calls of a client share no
\* state, so this specification follows one call through every option.
InitRetry == InitWith({NoCircuit}, {TRUE})

NextRetry ==
  \/ \E rt \in 0..MaxRetries, p \in Predicates, sg \in SignalStates, tm \in BOOLEAN :
       Start(1, rt, p, FALSE, NoKey, sg, tm)
  \/ \E c \in Calls : Proceed(c)
  \/ \E c \in Calls, st \in Statuses : TransportResponds(c, st)
  \/ \E c \in Calls, e \in TransportErrors : TransportThrows(c, e)
  \/ \E c \in Calls : BackoffDone(c)
  \/ \E c \in Calls : Complete(c)
  \/ \E c \in Calls : Settle(c)
  \/ \E c \in Calls : UserAbort(c)
  \/ \E c \in Calls : TimeoutFires(c)

SpecRetry == InitRetry /\ [][NextRetry]_vars

\* ------------------------------------------------- the circuit breaker
\* Calls of one client with a breaker, overlapping or one after the other;
\* no cancellation, so every admitted attempt reaches the transport.
InitCircuit == InitWith(Circuits, {TRUE})

NextCircuit ==
  \/ \E c \in Calls, rt \in 0..1, th \in BOOLEAN :
       Unsettled = {} /\ Start(c, rt, "default", th, NoKey, "absent", FALSE)
  \/ \E c \in Calls : Proceed(c)
  \/ \E c \in Calls, st \in {200, 429, 500} : TransportResponds(c, st)
  \/ \E c \in Calls, e \in {"Error"} : TransportThrows(c, e)
  \/ \E c \in Calls : BackoffDone(c)
  \/ \E c \in Calls : Complete(c)
  \/ \E c \in Calls : Settle(c)
  \/ Tick

SpecCircuit == InitCircuit /\ [][NextCircuit]_vars

\* -------------------------------------------------------- deduplication
\* Calls of one client with dedupe enabled (NoKey: the hash function gave
\* no key), with the default timeout or none, with and without AbortSignal.any.
InitDedupe == InitWith({NoCircuit}, BOOLEAN)

NextDedupe ==
  \/ \E c \in Calls, rt \in 0..1, k \in Keys \cup {NoKey}, tm \in BOOLEAN :
       Start(c, rt, "default", FALSE, k, "absent", tm)
  \/ \E c \in Calls : ProceedNoAny(c)
  \/ \E c \in Calls : Proceed(c)
  \/ \E c \in Calls, st \in {200} : TransportResponds(c, st)
  \/ \E c \in Calls, e \in {"Error"} : TransportThrows(c, e)
  \/ \E c \in Calls : BackoffDone(c)
  \/ \E c \in Calls : Complete(c)
  \/ \E c \in Calls : Settle(c)

SpecDedupe == InitDedupe /\ [][NextDedupe]_vars

\* The same calls when every continuation that is ready runs (the event loop
\* runs each settled promise's reactions and each expired timer) and every
\* transport invocation settles; starting a call is the caller's choice.
FairDedupe ==
  /\ \A c \in Calls : WF_vars(ProceedNoAny(c))
  /\ \A c \in Calls : WF_vars(Proceed(c))
  /\ \A c \in Calls :
       WF_vars(TransportResponds(c, 200) \/ TransportThrows(c, "Error"))
  /\ \A c \in Calls : WF_vars(BackoffDone(c))
  /\ \A c \in Calls : WF_vars(Complete(c))
  /\ \A c \in Calls : WF_vars(Settle(c))

SpecDedupeFair == SpecDedupe /\ FairDedupe

\* ------------------------------------------ outcomes of a single call
\* One call without breaker and dedupe, through every option, with a
\* transport that behaves like fetch: once the signal it was given is
\* cancelled it rejects with a DOMException named AbortError.
InitOutcome == InitWith({NoCircuit}, {TRUE})

NextOutcome ==
  \/ \E rt \in 0..MaxRetries, p \in Predicates, th \in BOOLEAN,
        sg \in SignalStates, tm \in BOOLEAN :
       Start(1, rt, p, th, NoKey, sg, tm)
  \/ \E c \in Calls : Proceed(c)
  \/ \E c \in Calls, st \in Statuses :
       ~SignalAborted(call[c]) /\ TransportResponds(c, st)
  \/ \E c \in Calls, e \in {"Error", "TypeErrorNetwork"} :
       ~SignalAborted(call[c]) /\ TransportThrows(c, e)
  \/ \E c \in Calls : SignalAborted(call[c]) /\ TransportThrows(c, "DOMAbortError")
  \/ \E c \in Calls : BackoffDone(c)
  \/ \E c \in Calls : Complete(c)
  \/ \E c \in Calls : Settle(c)
  \/ \E c \in Calls : UserAbort(c)
  \/ \E c \in Calls : TimeoutFires(c)

SpecOutcome == InitOutcome /\ [][NextOutcome]_vars

\* ------------------------------------------------ the pending requests
\* What a call of these specifications is started with: retries, dedupe key,
\* caller signal, timeout.
Retrying == <<1, NoKey, "absent", FALSE>>
Keyed == <<0, CHOOSE k \in Keys : TRUE, "absent", FALSE>>
WithSignal == <<0, NoKey, "live", FALSE>>
WithTimeout == <<0, NoKey, "absent", TRUE>>

\* Overlapping calls of one client whose breaker opens at the first failure;
\* they settle by success, transport error, timeout, caller cancellation and
\* breaker rejection; the transport behaves like fetch.
InitSettle == InitWith({ci \in Circuits : ci.threshold = 1}, {TRUE})

NextSettle ==
  \/ \E c \in Calls, o \in {Retrying, WithSignal, WithTimeout} :
       Start(c, o[1], "default", FALSE, o[2], o[3], o[4])
  \/ \E c \in Calls : Proceed(c)
  \/ \E c \in Calls, st \in {200} :
       ~SignalAborted(call[c]) /\ TransportResponds(c, st)
  \/ \E c \in Calls : ~SignalAborted(call[c]) /\ TransportThrows(c, "Error")
  \/ \E c \in Calls : SignalAborted(call[c]) /\ TransportThrows(c, "DOMAbortError")
  \/ \E c \in Calls : BackoffDone(c)
  \/ \E c \in Calls : Complete(c)
  \/ \E c \in Calls : Settle(c)
  \/ \E c \in Calls : UserAbort(c)
  \/ \E c \in Calls : TimeoutFires(c)

SpecSettle == InitSettle /\ [][NextSettle]_vars

\* The same calls with dedupe enabled and abortAll().
InitPending == InitWith(Circuits, {TRUE})

NextPending ==
  \/ \E c \in Calls, o \in {Retrying, Keyed, WithSignal, WithTimeout} :
       Start(c, o[1], "default", FALSE, o[2], o[3], o[4])
  \/ \E c \in Calls : Proceed(c)
  \/ \E c \in Calls, st \in {200, 500} :
       ~SignalAborted(call[c]) /\ TransportResponds(c, st)
  \/ \E c \in Calls : ~SignalAborted(call[c]) /\ TransportThrows(c, "Error")
  \/ \E c \in Calls : SignalAborted(call[c]) /\ TransportThrows(c, "DOMAbortError")
  \/ \E c \in Calls : BackoffDone(c)
  \/ \E c \in Calls : Complete(c)
  \/ \E c \in Calls : Settle(c)
  \/ \E c \in Calls : UserAbort(c)
  \/ \E c \in Calls : TimeoutFires(c)
  \/ AbortAll

SpecPending == InitPending /\ [][NextPending]_vars

\* -------------------------------------------------------------- hooks
\* Calls of one client, one after the other, with and without a breaker,
\* with every hook installed; the transport behaves like fetch.
InitHooks == InitWith(Circuits \cup {NoCircuit}, {TRUE})

NextHooks ==
  \/ \E c \in Calls, rt \in 0..1, th \in BOOLEAN,
        o \in {Retrying, WithSignal, WithTimeout} :
       Unsettled = {} /\ Start(c, rt, "default", th, NoKey, o[3], o[4])
  \/ \E c \in Calls : Proceed(c)
  \/ \E c \in Calls, st \in {200, 404, 500} :
       ~SignalAborted(call[c]) /\ TransportResponds(c, st)
  \/ \E c \in Calls, e \in {"Error", "TypeErrorNetwork"} :
       ~SignalAborted(call[c]) /\ TransportThrows(c, e)
  \/ \E c \in Calls : SignalAborted(call[c]) /\ TransportThrows(c, "DOMAbortError")
  \/ \E c \in Calls : BackoffDone(c)
  \/ \E c \in Calls : Complete(c)
  \/ \E c \in Calls : Settle(c)
  \/ \E c \in Calls : UserAbort(c)
  \/ \E c \in Calls : TimeoutFires(c)

SpecHooks == InitHooks /\ [][NextHooks]_vars

\* ---------------------------------------------- signals and the timeout
\* One call of a client without breaker and dedupe, with a timeout option of
\* its own or the client's, a caller signal, a transformRequest hook that
\* replaces the request's signal, in runtimes with and without
\* AbortSignal.any and throwIfAborted. The clock advances while the
\* transport or a backoff wait is pending; the transport behaves like fetch.
Inits ==
  [retries : 0..1, shouldRetry : {"default", "always"}, signal : SignalStates,
   timeout : {Undefined, 0, 1}, fetchHandler : {FALSE},
   transformSignal : SignalStates]

InitSignals ==
  InitClient({NoCircuit}, BOOLEAN,
             [timeout : {0, DefaultTimeout}, fetchHandler : {FALSE}])

NextSignals ==
  \/ \E o \in Inits, env \in BOOLEAN : StartWith(1, o, env)
  \/ \E c \in Calls : ProceedNoAny(c)
  \/ \E c \in Calls : Proceed(c)
  \/ \E c \in Calls, st \in {200, 500} :
       ~SignalAborted(call[c]) /\ TransportResponds(c, st)
  \/ \E c \in Calls : ~SignalAborted(call[c]) /\ TransportThrows(c, "Error")
  \/ \E c \in Calls : SignalAborted(call[c]) /\ TransportThrows(c, "DOMAbortError")
  \/ \E c \in Calls : BackoffDone(c)
  \/ \E c \in Calls : Complete(c)
  \/ \E c \in Calls : Settle(c)
  \/ \E c \in Calls : UserAbort(c)
  \/ \E c \in Calls : TransformAbort(c)
  \/ \E c \in Calls : TimeoutFires(c)
  \/ (\E c \in Calls : call[c].pc \in {"inflight", "backoff"}) /\ Tick

SpecSignals == InitSignals /\ [][NextSignals]_vars

\* ------------------------------------------- the delay and the transport
\* One call of a client with or without a fetchHandler of its own, with the
\* default predicate and the default delay, whose responses may carry a
\* Retry-After header and whose transport may throw a value that has no
\* message.
RetryAfters == {NoRetryAfter, 2}

InitDelay ==
  InitClient({NoCircuit}, {TRUE}, [timeout : {DefaultTimeout}, fetchHandler : BOOLEAN])

NextDelay ==
  \/ \E rt \in 0..MaxRetries, fh \in BOOLEAN :
       StartWith(1, [retries |-> rt, shouldRetry |-> "default", signal |-> "absent",
                     timeout |-> 0, fetchHandler |-> fh,
                     transformSignal |-> "absent"], TRUE)
  \/ \E c \in Calls : Proceed(c)
  \/ \E c \in Calls, st \in {200, 429, 500}, ra \in RetryAfters :
       TransportRespondsWith(c, st, ra)
  \/ \E c \in Calls, e \in {"Error", "Thrown", "TypeErrorNetwork"} :
       TransportThrows(c, e)
  \/ \E c \in Calls : BackoffDone(c)
  \/ \E c \in Calls : Complete(c)
  \/ \E c \in Calls : Settle(c)

SpecDelay == InitDelay /\ [][NextDelay]_vars

\* --------------------------------------- the breaker, overlapping calls
\* Calls of one client with a breaker that overlap: a call may start, be
\* admitted and complete while others are in flight or waiting to retry.
InitOverlap == InitWith(Circuits, {TRUE})

NextOverlap ==
  \/ \E c \in Calls : Start(c, 0, "default", FALSE, NoKey, "absent", FALSE)
  \/ \E c \in Calls : Proceed(c)
  \/ \E c \in Calls, st \in {200, 500} : TransportResponds(c, st)
  \/ \E c \in Calls : TransportThrows(c, "Error")
  \/ \E c \in Calls : Complete(c)
  \/ \E c \in Calls : Settle(c)
  \/ Tick

SpecOverlap == InitOverlap /\ [][NextOverlap]_vars

\* ------------------------------------------------------ the dedupe key
\* Two calls of a client with dedupe enabled and the default key function,
\* for requests of every method, url and body above.
InitHash ==
  /\ now = 0
  /\ circuit = NoCircuit
  /\ anySupported = TRUE
  /\ options = DefaultOptions
  /\ breaker = InitBreaker
  /\ dedupeMap = [k \in HashKeys |-> NoEntry]
  /\ pendingRequests = <<>>
  /\ call = [c \in Calls |-> IdleCall]

NextHash ==
  \/ \E c \in 1..2, m \in Methods, u \in Urls, b \in Bodies : StartHashed(c, m, u, b)
  \/ \E c \in Calls : Proceed(c)
  \/ \E c \in Calls : TransportResponds(c, 200)
  \/ \E c \in Calls : TransportThrows(c, "Error")
  \/ \E c \in Calls : Complete(c)
  \/ \E c \in Calls : Settle(c)

SpecHash == InitHash /\ [][NextHash]_vars

\* =============================================================== claims
Done(c) == call[c].pc \in {"settling", "settled"}

\* C1: with the default retry predicate, a call whose transport failed with
\* retryable outcomes on its first k attempts (k <= retries) and then
\* returned a successful response resolves with that response; the transport
\* was invoked exactly k + 1 times and onRetry fired exactly k times.
C1_RetryThenSuccess ==
  \A c \in Calls :
    (Done(c) /\ call[c].predicate = "default" /\ call[c].lastTransport = 200)
      => /\ call[c].result = Resolved(200)
         /\ call[c].transportFails <= call[c].retries
         /\ call[c].transportCalls = call[c].transportFails + 1
         /\ call[c].onRetryCalls = call[c].transportFails

\* the example of C1: retries = 2, two failures, then success
C1_Witness ==
  \E c \in Calls :
    /\ call[c].pc = "settled" /\ call[c].predicate = "default"
    /\ call[c].retries = 2 /\ call[c].transportFails = 2
    /\ call[c].lastTransport = 200 /\ call[c].transportCalls = 3
    /\ call[c].onRetryCalls = 2

\* C2: attempts are numbered from 1 (the attempt of loop index i has ordinal
\* i + 1 <= retries + 1) and the transport is invoked at most retries + 1
\* times, whatever the transport returns and whatever the retry predicate.
C2_AttemptBound ==
  \A c \in Calls :
    /\ call[c].i <= call[c].retries
    /\ call[c].transportCalls <= call[c].retries + 1
    /\ call[c].pc = "inflight" => call[c].transportCalls <= call[c].i + 1

\* a call that used all its attempts under a predicate that always retries
C2_Witness ==
  \E c \in Calls :
    /\ call[c].pc = "settled" /\ call[c].predicate = "always"
    /\ call[c].retries = MaxRetries
    /\ call[c].transportCalls = MaxRetries + 1

\* the last transport outcome of a call is a failure for the breaker: the
\* transport threw, or returned a status >= 500 or 429
EndedInFailure(c) ==
  call[c].lastTransport = TransportThrew \/ IsFailureStatus(call[c].lastTransport)

\* breaker.invoke records the outcome of call c in this step
Completes(c) == call[c].pc = "tail" /\ call'[c].pc = "settling"

Admitted == {c \in Calls : call[c].pc # "idle" /\ ~call[c].gateRejected}

\* C3: with retries = 0 and a transport that throws on every call, a breaker
\* of threshold N is closed and lets calls through after k < N failed calls,
\* and is open after the Nth failed call.
C3_OpensAtNthFailure ==
  (\A c \in Calls : call[c].pc # "idle" =>
      /\ call[c].pc = "settled" /\ call[c].retries = 0
      /\ call[c].gateRejected \/ call[c].lastTransport = TransportThrew)
  => /\ Cardinality(Admitted) < circuit.threshold
          => ~circuitOpen /\ ~GateRejects(breaker, now)
     /\ Cardinality(Admitted) >= circuit.threshold => circuitOpen

\* C4: a call started (client invoked) while the breaker is open
\* and its deadline is ahead never reaches the transport and rejects with
\* CircuitOpenError.
C4_StartedWhileOpen ==
  \A c \in Calls :
    call[c].startedBlocked
      => /\ call[c].transportCalls = 0
         /\ call[c].pc \notin {"inflight", "backoff", "tail"}
         /\ Done(c) => call[c].result = Rejected("CircuitOpenError")

\* C4, taken at the gate: a call that reaches breaker.invoke, after its
\* request-transform and before hooks, while the breaker is open and its
\* deadline is ahead rejects with CircuitOpenError without entering the retry
\* loop and without any transport invocation.
C4_GateBlocks ==
  \A c \in Calls :
    call[c].gateBlocked
      => /\ call[c].gateRejected
         /\ call[c].transportCalls = 0
         /\ Done(c)
         /\ call[c].result = Rejected("CircuitOpenError")

\* a call was rejected at the gate of an open breaker
C4_Witness ==
  \E c \in Calls :
    /\ call[c].gateBlocked /\ call[c].pc = "settled"
    /\ call[c].result = Rejected("CircuitOpenError")
    /\ circuitOpen

\* C5: when a call admitted after the reset deadline of an open breaker ends
\* in failure, the breaker is open afterwards and its deadline is the time of
\* that failure plus reset.
C5_FailureAfterResetKeepsOpen ==
  [][\A c \in Calls :
       (Completes(c) /\ call[c].admittedOpen /\ EndedInFailure(c))
         => breaker'.isOpen /\ breaker'.nextAttempt = now + circuit.reset]_vars

\* C6: a call that completes successfully leaves the failure counter at zero
\* and the breaker closed, and after a success the breaker of threshold N
\* opens only when N further failures have occurred.
C6_SuccessResets ==
  [][/\ \A c \in Calls :
          (Completes(c) /\ call'[c].result.k = "res"
             /\ ~IsFailureStatus(call'[c].result.status))
            => breaker'.failures = 0 /\ ~breaker'.isOpen
     /\ (breaker.hadSuccess /\ ~breaker.isOpen /\ breaker'.isOpen)
          => breaker'.streak >= circuit.threshold]_vars

\* the call whose outcome breaker.invoke records in this step resolved with
\* a response that is no failure for the breaker
Succeeds(c) ==
  Completes(c) /\ call'[c].result.k = "res" /\ ~IsFailureStatus(call'[c].result.status)

\* C7: a successful call that completes while the breaker is open closes it
\* and onCircuitClose is invoked once, with that call's request; the
\* notification is invoked in no step other than an open -> closed transition.
C7_CloseNotifiedOncePerTransition ==
  [][/\ \A c \in Calls :
          (Succeeds(c) /\ breaker.isOpen)
            => /\ ~breaker'.isOpen
               /\ breaker'.closeNotified = breaker.closeNotified + 1
               /\ breaker'.closeArg = c
     /\ breaker'.closeNotified # breaker.closeNotified
          => /\ breaker.isOpen /\ ~breaker'.isOpen
             /\ breaker'.closeNotified = breaker.closeNotified + 1]_vars

\* C8: a step that takes the breaker from closed to open invokes the open
\* notification once, with the request whose failure was recorded; a failure
\* recorded while the breaker is already open does not invoke it.
C8_OpenNotifiedOncePerTransition ==
  [][/\ (~breaker.isOpen /\ breaker'.isOpen)
          => /\ breaker'.openNotified = breaker.openNotified + 1
             /\ breaker'.openArg = breaker'.lastOpenRequest
     /\ (breaker.isOpen /\ breaker'.isOpen)
          => breaker'.openNotified = breaker.openNotified]_vars

\* C9: with retries = 0 and throwOnHttpError = false, once N calls in a row
\* have ended by returning a status >= 500 or 429 the breaker of threshold N
\* has opened and set its deadline.
C9_ServerErrorsOpen ==
  LET responders == {c \in Calls : /\ call[c].pc = "settled"
                                   /\ call[c].result.k = "res"
                                   /\ IsFailureStatus(call[c].result.status)}
  IN ((\A c \in Calls : call[c].pc # "idle" =>
          /\ c \in responders
          /\ call[c].retries = 0 /\ ~call[c].throwOnHttpError)
       /\ Cardinality(responders) >= circuit.threshold)
     => breaker.opened >= 1 /\ breaker.nextAttempt > 0

\* the calls that presented the key of a call that was still unsettled
Seconds == {c \in Calls : call[c].peer # NoCall}

C11_TimeoutRejects ==
  \A c \in Calls :
    (Done(c) /\ call[c].timedOut /\ call[c].userSignal # "aborted")
      => call[c].result = Rejected("TimeoutError")

\* C12: a call whose caller signal was cancelled before it completed has
\* rejected with the caller's AbortError once it is done - also when the
\* timeout fired as well, and whatever its earlier attempts returned.
C12_CallerAbortRejects ==
  \A c \in Calls :
    (Done(c) /\ call[c].userSignal = "aborted")
      => call[c].result = Rejected("AbortErrorByUser")

\* C17: a call whose last transport outcome is a response settles by that
\* response alone: with throwOnHttpError and a status of 400 or more it
\* rejects with HttpError carrying the response, otherwise it resolves with
\* the response, whatever the earlier attempts returned.
C17_FinalResponseDecides ==
  \A c \in Calls :
    (Done(c) /\ call[c].lastTransport \in Statuses)
      => call[c].result =
           IF call[c].throwOnHttpError /\ call[c].lastTransport >= 400
             THEN RejectedWith("HttpError", call[c].lastTransport)
             ELSE Resolved(call[c].lastTransport)

C17_Witness ==
  \E c \in Calls :
    /\ Done(c) /\ call[c].throwOnHttpError
    /\ call[c].transportCalls = call[c].retries + 1 /\ call[c].retries >= 1
    /\ call[c].result = RejectedWith("HttpError", 429)

\* C18: when the retry loop of a call ends with the NetworkError made from
\* the transport's connectivity failure, the call rejects with that
\* NetworkError, whatever throwOnHttpError is and whatever the earlier
\* attempts returned.
C18_NetworkErrorSurfaces ==
  [][\A c \in Calls :
       (Completes(c) /\ call[c].result = Rejected("NetworkError"))
         => call'[c].result = Rejected("NetworkError")]_vars

\* the number of records of call c in pendingRequests
RecordsOf(c) == Cardinality({n \in 1..Len(pendingRequests) : pendingRequests[n] = c})

\* C13: pendingRequests holds exactly one record for every call that has
\* been started and has not settled, and none for any other call.
C13_PendingIsUnsettled ==
  \A c \in Calls : RecordsOf(c) = IF c \in Unsettled THEN 1 ELSE 0

\* C14: a record leaves pendingRequests only in the step in which its call
\* settles, and whenever every started call has settled pendingRequests is
\* empty.
C14_RemovedOnSettle ==
  [][/\ \A c \in Calls :
          (c \in Range(pendingRequests) /\ c \notin Range(pendingRequests'))
            => call[c].pc # "settled" /\ call'[c].pc = "settled"
     /\ (\A c \in Calls : call'[c].pc \in {"idle", "settled"})
          => pendingRequests' = <<>>]_vars

C14_Witness ==
  /\ pendingRequests = <<>>
  /\ \A c \in Calls : call[c].pc = "settled"
  /\ \E c \in Calls : call[c].result = Rejected("CircuitOpenError")
  /\ \E c \in Calls : call[c].result = Rejected("TimeoutError")

\* C15: a call that joined a dedupe entry has a record of its own in
\* pendingRequests until it settles.
C15_JoinerHasRecord ==
  \A c \in Calls : call[c].pc = "joined" => RecordsOf(c) = 1

\* an abortAll() step: some controller becomes aborted
AbortAllStep ==
  \E c \in Calls : ~call[c].controllerAborted /\ call'[c].controllerAborted

\* C16: abortAll() cancels the signal of every pending call that is in an
\* attempt or in a backoff wait; afterwards such a call invokes the transport
\* no more and its retry loop ends with an abort error.
C16_AbortAllCancels ==
  [][\A c \in Calls :
       /\ (AbortAllStep /\ c \in Range(pendingRequests)
             /\ call[c].pc \in {"inflight", "backoff"})
            => SignalAborted(call'[c])
       /\ (call[c].controllerAborted /\ call[c].pc \in {"inflight", "backoff"})
            => /\ call'[c].transportCalls = call[c].transportCalls
               /\ call'[c].pc = "tail" => IsAbortError(call'[c].result.err)]_vars

\* C19: once a call has failed, onError has been invoked exactly once, with
\* the error the caller receives, and onComplete exactly once, with
\* undefined and that error.
C19_GenericHooksOnce ==
  \A c \in Calls :
    (Done(c) /\ call[c].result.k = "err")
      => /\ call[c].onErrorCalls = 1
         /\ call[c].onErrorArg = call[c].result.err
         /\ call[c].onCompleteCalls = 1
         /\ call[c].onCompleteArg = call[c].result

\* C20: once a call has failed, the type-specific hook of its error has been
\* invoked exactly once and no other type-specific hook at all: onTimeout for
\* TimeoutError, onAbort for AbortError, onCircuitOpen for CircuitOpenError;
\* no type-specific hook ran after onError.
C20_SpecificHookOnce ==
  \A c \in Calls :
    (Done(c) /\ call[c].result.k = "err")
      => /\ call[c].onTimeoutCalls =
              IF call[c].result.err = "TimeoutError" THEN 1 ELSE 0
         /\ call[c].onAbortCalls =
              IF IsAbortError(call[c].result.err) THEN 1 ELSE 0
         /\ call[c].onCircuitOpenCalls =
              IF call[c].result.err = "CircuitOpenError" THEN 1 ELSE 0
         /\ ~call[c].lateSpecific

\* C21: a call that resolves with a response has run its hooks in the order
\* before, transport attempt(s), after, onComplete(request, response,
\* undefined): before once and ahead of the first transport invocation, after
\* and onComplete once each behind the last attempt, onComplete last, and
\* none of onError, onTimeout, onAbort
C21_HookOrderOnSuccess ==
  \A c \in Calls :
    Done(c) /\ call[c].result.k = "res" =>
      LET log == call[c].hookLog
          n == Len(log)
      IN /\ n >= 4
         /\ log[1] = "before"
         /\ \A m \in 2..(n - 2) : log[m] = "transport"
         /\ log[n - 1] = "after"
         /\ log[n] = "onComplete"
         /\ call[c].onCompleteArg = call[c].result
         /\ call[c].onErrorCalls = 0
         /\ call[c].onTimeoutCalls = 0
         /\ call[c].onAbortCalls = 0

\* C22: a call that passes a fetchHandler in its own options has its
\* transport invocations made through that handler and through no other
C22_CallHandlerUsed ==
  \A c \in Calls :
    call[c].fetchHandler /\ call[c].transportCalls > 0 =>
      call[c].handler = "call"

\* C23: a call whose effective timeout is 0 (its own timeout option, or the
\* client's when it has none) is never cancelled by a timeout: its timeout
\* signal never fires, onTimeout is not invoked and it does not reject with
\* TimeoutError, whatever time has passed
C23_ZeroTimeoutNeverFires ==
  \A c \in Calls :
    call[c].pc # "idle"
      /\ (call[c].initTimeout = 0
            \/ (call[c].initTimeout = Undefined /\ options.timeout = 0)) =>
      /\ ~call[c].timedOut
      /\ call[c].onTimeoutCalls = 0
      /\ call[c].result.err # "TimeoutError"

\* a call with timeout 0 on a client whose default is positive resolved after
\* its only transport invocation had been pending for longer than the default
C23_Witness ==
  \E c \in Calls :
    /\ call[c].pc = "settling" /\ call[c].result = Resolved(200)
    /\ call[c].initTimeout = 0 /\ options.timeout = DefaultTimeout
    /\ call[c].retries = 0 /\ call[c].transportCalls = 1
    /\ now > DefaultTimeout

\* C24: the timeout signal of a call is one for all its attempts: once it
\* has fired it stays fired through retries and backoff waits, and no later
\* step of the call invokes the transport
C24_TimeoutIsCallBudget ==
  [][\A c \in Calls :
       call[c].timedOut =>
         /\ call'[c].timedOut
         /\ call'[c].transportCalls = call[c].transportCalls]_vars

\* a call whose timeout fired went on to a second attempt (its predicate
\* retries everything) and ended without a second transport invocation
C24_Witness ==
  \E c \in Calls :
    /\ call[c].pc = "settling" /\ call[c].timedOut
    /\ call[c].retries = 1 /\ call[c].i = 1
    /\ call[c].transportCalls = 1

\* C25: whatever the retry predicate, the retry loop never schedules a retry
\* (backoff wait, onRetry, further attempt) after an attempt failed with
\* AbortError, TimeoutError or CircuitOpenError
C25_CancellationNeverRetried ==
  \A c \in Calls : ~call[c].retriedCancel

\* C26: a call cancelled only through the signal of the transformed request
\* (caller signal and timeout not cancelled, the signals could be combined)
\* rejects with AbortError('Request was aborted'), whether the pre-attempt
\* check or the transport in flight finds the cancellation
C26_TransformAbortRejects ==
  \A c \in Calls :
    Done(c) /\ call[c].transformSignal = "aborted"
      /\ call[c].userSignal # "aborted" /\ ~call[c].timedOut
      /\ (anySupported \/ (call[c].userSignal = "absent" /\ ~call[c].timeout)) =>
      call[c].result = Rejected("AbortError")

\* C27: when the retry loop ends by throwing an error that is not one of
\* TimeoutError, AbortError, CircuitOpenError, NetworkError, HttpError, the
\* call rejects with RetryLimitError carrying that error's message (the
\* default message for an error without one) and that error as its cause;
\* an error of the named types is never wrapped
C27_RetryLimitWraps ==
  \A c \in Calls :
    call[c].pc = "settling" /\ call[c].caught # NoError =>
      IF call[c].caught \in {"TimeoutError", "AbortError", "AbortErrorByUser",
                             "CircuitOpenError", "NetworkError", "HttpError"}
        THEN call[c].result.err # "RetryLimitError" /\ call[c].wrapped = NoWrap
        ELSE /\ call[c].result = Rejected("RetryLimitError")
             /\ call[c].wrapped.cause = call[c].caught
             /\ call[c].wrapped.message =
                  IF call[c].caught = "Thrown" THEN "Retry limit reached"
                                               ELSE call[c].caught

C29_RetryAfterOverrides ==
  \A c \in Calls :
    call[c].pc = "backoff" /\ call[c].lastRetryAfter # NoRetryAfter =>
      call[c].delayCtx.wait = call[c].lastRetryAfter * 1000

\* C30: the retry context numbers the first attempt 1 and the first retry 2:
\* while a call waits before its n-th retry (loop index n - 1), the delay
\* policy was given attempt = n + 1
C30_AttemptNumbering ==
  \A c \in Calls :
    call[c].pc = "backoff" => call[c].delayCtx.attempt = (call[c].i + 1) + 1

\* C40: for a breaker with threshold >= 1, whatever way the recorded
\* failures and successes of overlapping calls interleave, circuitOpen is
\* true exactly when the failure counter is at least the threshold
C40_OpenIffCounterAtThreshold ==
  circuit.enabled /\ circuit.threshold >= 1 =>
    (circuitOpen <=> breaker.failures >= circuit.threshold)

\* the breaker is open while two calls are under way, one of them in flight
\* and admitted before it opened
C40_Witness ==
  /\ circuit.enabled /\ circuit.threshold = 2
  /\ circuitOpen
  /\ Cardinality(Unsettled) = 2
  /\ \E c \in Unsettled : call[c].pc = "inflight" /\ ~call[c].admittedOpen

\* C32: in every state the breaker's flag is open exactly when the failure
\* counter has reached the threshold and the reset deadline is still ahead
C32_OpenIffCountedAndBeforeDeadline ==
  circuit.enabled =>
    (circuitOpen <=>
       (breaker.failures >= circuit.threshold /\ now < breaker.nextAttempt))

\* C33: the flag goes from open to closed only in the step in which a call
\* that was admitted through the gate of the open breaker, its deadline
\* passed, completes with a success; never while the deadline is ahead
C33_ClosedOnlyByProbeSuccess ==
  [][(circuit.enabled /\ breaker.isOpen /\ ~breaker'.isOpen) =>
       /\ now >= breaker.nextAttempt
       /\ \E c \in Calls : Succeeds(c) /\ call[c].admittedOpen]_vars

\* C37: no step invokes the transport while the breaker is open and its
\* reset deadline is ahead, be it the first attempt of a call or a retry
C37_NoTransportWhileBlocked ==
  [][\A c \in Calls :
       call'[c].transportCalls > call[c].transportCalls => ~BlockedNow]_vars

\* C34: a dedupe entry exists for every key an unsettled call presented, and
\* no entry is left in the store once the call that created it has settled,
\* whichever way that call ended
C34_EntryGoesWithOwner ==
  /\ \A c \in Unsettled :
       call[c].key # NoKey => dedupeMap[call[c].key].owner # NoCall
  /\ \A k \in DOMAIN dedupeMap :
       dedupeMap[k].owner # NoCall => call[dedupeMap[k].owner].pc # "settled"

\* C38: every started call eventually settles, the calls that were handed
\* the outcome of another call's dedupe entry included
C38_EveryCallSettles ==
  \A c \in Calls : (call[c].pc # "idle") ~> (call[c].pc = "settled")

\* C35: once one of the signals composed for a call (the caller's, the
\* timeout's, the transformed request's) is cancelled, no step invokes the
\* transport for that call, whatever retries and predicate it has; a call
\* that starts with a cancelled signal never invokes it
C35_NoTransportAfterCancel ==
  [][\A c \in Calls :
       SignalAborted(call[c]) =>
         call'[c].transportCalls = call[c].transportCalls]_vars

\* a call whose predicate retries everything had the signal of its
\* transformed request cancelled after its first attempt failed, and made
\* its second attempt without invoking the transport
C35_Witness ==
  \E c \in Calls :
    /\ call[c].pc = "settling" /\ call[c].predicate = "always"
    /\ call[c].transformSignal = "aborted"
    /\ call[c].userSignal # "aborted" /\ ~call[c].timedOut
    /\ call[c].i = 1 /\ call[c].transportCalls = 1

\* C36: a call resolves with a response only if its last attempt invoked the
\* transport and the transport returned that response; when the last attempt
\* threw or was skipped the call rejects
C36_ResolvesWithLastResponse ==
  \A c \in Calls :
    call[c].pc = "settling" /\ call[c].result.k = "res" =>
      /\ call[c].transportCalls = call[c].i + 1
      /\ call[c].lastTransport = call[c].result.status

\* C31: the default key is a function of method, url and body alone: two
\* calls with the same three arguments get the same key, which for an
\* absent, text, URL-encoded or binary body is the upper-cased method, '|',
\* the url, '|' and the serialized body ('' when absent); a FormData or
\* ReadableStream body always gets no key, and a call without a key neither
\* joins another call nor is joined
C31_KeyIsFunctionOfArguments ==
  \A c \in Calls :
    call[c].pc # "idle" =>
      LET p == call[c].params
          k == call[c].key
          n == Len(p.url)
      IN /\ \A d \in Calls :
              call[d].pc # "idle" /\ call[d].params = p => call[d].key = k
         /\ IF p.body.kind \in {"FormData", "ReadableStream"}
              THEN /\ k = NoKey
                   /\ call[c].joinedTo = NoCall
                   /\ \A d \in Calls : call[d].joinedTo # c
                   /\ Done(c) => call[c].transportCalls = 1
              ELSE /\ Len(k) >= n + 3
                   /\ k[1] \in {"PATCH", "POST"}
                   /\ p.method = "patch" <=> k[1] = "PATCH"
                   /\ k[2] = "|"
                   /\ SubSeq(k, 3, n + 2) = p.url
                   /\ k[n + 3] = "|"
                   /\ p.body.kind = "null" => Len(k) = n + 3
                   /\ p.body.kind = "string" => SubSeq(k, n + 4, Len(k)) = p.body.data

\* two calls with the same method, url and binary body: the second was
\* handed the outcome of the first; and two with the same FormData body
\* would each have run on their own
C31_Witness ==
  \E c, d \in Calls :
    /\ c # d /\ call[c].params = call[d].params
    /\ call[c].params.body.kind = "ArrayBuffer"
    /\ call[d].joinedTo = c
    /\ call[c].pc = "settled" /\ call[d].pc = "settled"
    /\ call[d].result = call[c].result

\* C39: with the default key function a call is handed the outcome of
\* another call only if the two have the same method, url and body; two
\* different (method, url, text body) triples never get the same key
C39_KeyTellsRequestsApart ==
  \A c, d \in Calls :
    /\ call[d].joinedTo = c => call[d].params = call[c].params
    /\ (call[c].pc # "idle" /\ call[d].pc # "idle"
          /\ call[c].params.body.kind = "string"
          /\ call[d].params.body.kind = "string"
          /\ call[c].params # call[d].params) => call[c].key # call[d].key

====
